---------------------------- MODULE Spec2Model ----------------------------
(***************************************************************************)
(* Model of the type_traits crate (src/src/lib.rs, src/src/mem.rs).        *)
(*                                                                         *)
(* The crate has no runtime state: everything happens while a client crate *)
(* is compiled.  The state of the model is therefore the state of such a   *)
(* compilation: the target, the items of the client crate that the         *)
(* compiler has seen, the associated constants it has evaluated, and the   *)
(* result of the last query expression it has evaluated.                   *)
(*                                                                         *)
(* SpecBuild is the compilation of a client that uses the assertion        *)
(* constants; SpecQuery is the evaluation of one query expression (a type  *)
(* query, a call of a value-based function, or a macro invocation).  The   *)
(* two share the target and nothing else, and are checked separately.      *)
(*                                                                         *)
(* A type is a sequence of strings: a base type name preceded by one "&"   *)
(* per level of reference, e.g. <<"&", "u8">> is &u8.                      *)
(***************************************************************************)
EXTENDS Integers, Sequences, FiniteSets, TLC

VARIABLES
    ptr,          \* size of a thin pointer on the target, in bytes
    guardEffect,  \* whether Drop::drop of the client type Guard has a side effect
    phase,        \* "compiling", "built", "failed", "ran"
    declared,     \* generic functions of the client, one per constant they reference
    named,        \* concrete instances of the helpers that were named, no constant used
    instantiated, \* (constant, L, R) referenced from instantiated generic code
    errors,       \* the references whose evaluation aborted compilation
    deferred,     \* the references whose assertion is left to run time
    rtError,      \* a panic happened while the built program ran
    out           \* the last query expression evaluated, with its result

vars == <<ptr, guardEffect, phase, declared, named, instantiated, errors,
          deferred, rtError, out>>

(***************************************************************************)
(* Bounds.                                                                 *)
(***************************************************************************)
MaxItems == 3      \* items of the client crate in one compilation
MaxPostfix == 1    \* postfix operations (index, method call) in one expression

(***************************************************************************)
(* The types the documentation tests of the crate use.                     *)
(***************************************************************************)
SizedBase == {"unit", "u8", "u32", "usize", "arr4", "String", "Guard"}

UnsizedBase == {"str", "slice"}

Ref(t) == <<"&">> \o t

IsRef(t) == Head(t) = "&"

Deref(t) == Tail(t)

IsSized(t) == IsRef(t) \/ Head(t) \in SizedBase

PtrWidths == {4, 8}

(***************************************************************************)
(* core::mem::size_of::<T>(), align_of::<T>() and needs_drop::<T>() as the *)
(* compiler answers them for these types.                                  *)
(***************************************************************************)
mem_size_of(t) ==
    IF IsRef(t) THEN (IF IsSized(Deref(t)) THEN ptr ELSE 2 * ptr)
    ELSE CASE Head(t) = "unit"   -> 0
           [] Head(t) = "u8"     -> 1
           [] Head(t) = "u32"    -> 4
           [] Head(t) = "usize"  -> ptr
           [] Head(t) = "arr4"   -> 4
           [] Head(t) = "String" -> 3 * ptr
           [] Head(t) = "Guard"  -> 0

mem_align_of(t) ==
    IF IsRef(t) THEN ptr
    ELSE CASE Head(t) = "unit"   -> 1
           [] Head(t) = "u8"     -> 1
           [] Head(t) = "u32"    -> 4
           [] Head(t) = "usize"  -> ptr
           [] Head(t) = "arr4"   -> 1
           [] Head(t) = "String" -> ptr
           [] Head(t) = "Guard"  -> 1
           [] Head(t) = "str"    -> 1
           [] Head(t) = "slice"  -> 1

\* Releasing a value of the type runs code with a side effect.
HasCleanup(t) ==
    /\ ~IsRef(t)
    /\ \/ Head(t) = "String"
       \/ Head(t) = "Guard" /\ guardEffect

\* The intrinsic answers TRUE for every type with drop glue: Guard has a
\* Drop implementation, so it is reported whether or not its drop does anything.
mem_needs_drop(t) == ~IsRef(t) /\ Head(t) \in {"String", "Guard"}

(***************************************************************************)
(* impl<T> Type<T>                                                         *)
(***************************************************************************)
Type_size(t) == mem_size_of(t)

Type_align(t) == mem_align_of(t)

\* Variant of is_zst with the comparison turned around.
Type_is_zst_gt(t) == Type_size(t) > 0

Type_is_zst(t) == Type_size(t) = 0

\* Variant of needs_drop that reports the opposite.
Type_needs_drop_neg(t) == ~mem_needs_drop(t)

Type_needs_drop(t) == mem_needs_drop(t)

QueryOps == {"size", "align", "is_zst", "needs_drop"}

TypeQueryResult(op, t) ==
    CASE op = "size"       -> Type_size(t)
      [] op = "align"      -> Type_align(t)
      [] op = "is_zst"     -> Type_is_zst(t)
      [] op = "needs_drop" -> Type_needs_drop(t)


(***************************************************************************)
(* impl<T> Assert<T> and impl<L, R> Assert2<L, R>: the condition each      *)
(* associated constant hands to assert!.                                   *)
(***************************************************************************)
Assert_NO_NEED_DROP(t) == ~Type_needs_drop(t)

Assert_IS_NOT_ZST(t) == ~Type_is_zst(t)

Assert_IS_ZST(t) == Type_is_zst(t)

Assert2_IS_SAME_SIZE(l, r) == Type_size(l) = Type_size(r)

\* Variant of IS_SAME_ALIGN that compares the sizes.
Assert2_IS_SAME_ALIGN_size(l, r) == Type_size(l) = Type_size(r)

Assert2_IS_SAME_ALIGN(l, r) == Type_align(l) = Type_align(r)

Assert2_IS_LEFT_SIZE_GREATER_OR_EQUAL(l, r) == Type_size(l) >= Type_size(r)

\* Variant of IS_LEFT_SIZE_LESS with <= for <.
Assert2_IS_LEFT_SIZE_LESS_le(l, r) == Type_size(l) <= Type_size(r)

Assert2_IS_LEFT_SIZE_LESS(l, r) == Type_size(l) < Type_size(r)

Assert2_IS_LEFT_ALIGN_GREATER_OR_EQUAL(l, r) == Type_align(l) >= Type_align(r)

Assert2_IS_LEFT_ALIGN_LESS(l, r) == Type_align(l) < Type_align(r)

Consts1 == {"NO_NEED_DROP", "IS_NOT_ZST", "IS_ZST"}

Consts2 == {"IS_SAME_SIZE", "IS_SAME_ALIGN", "IS_LEFT_SIZE_GREATER_OR_EQUAL",
            "IS_LEFT_SIZE_LESS", "IS_LEFT_ALIGN_GREATER_OR_EQUAL",
            "IS_LEFT_ALIGN_LESS"}

Condition(c, l, r) ==
    CASE c = "NO_NEED_DROP"                   -> Assert_NO_NEED_DROP(l)
      [] c = "IS_NOT_ZST"                     -> Assert_IS_NOT_ZST(l)
      [] c = "IS_ZST"                         -> Assert_IS_ZST(l)
      [] c = "IS_SAME_SIZE"                   -> Assert2_IS_SAME_SIZE(l, r)
      [] c = "IS_SAME_ALIGN"                  -> Assert2_IS_SAME_ALIGN(l, r)
      [] c = "IS_LEFT_SIZE_GREATER_OR_EQUAL"  -> Assert2_IS_LEFT_SIZE_GREATER_OR_EQUAL(l, r)
      [] c = "IS_LEFT_SIZE_LESS"              -> Assert2_IS_LEFT_SIZE_LESS(l, r)
      [] c = "IS_LEFT_ALIGN_GREATER_OR_EQUAL" -> Assert2_IS_LEFT_ALIGN_GREATER_OR_EQUAL(l, r)
      [] c = "IS_LEFT_ALIGN_LESS"             -> Assert2_IS_LEFT_ALIGN_LESS(l, r)

\* assert!(cond) as the initializer of a constant of type (): the value (),
\* or a panic of the evaluator.
ConstEval(c, l, r) == IF Condition(c, l, r) THEN "unit" ELSE "panic"

\* Variant in which the assertion is a statement of a function, run
\* when the program runs.
EvalSite_runtime(c) == "run"

\* Every assertion is the initializer of a `pub const`, so it is the
\* compiler's constant evaluator that runs it.
EvalSite(c) == "compile"

(***************************************************************************)
(* The compilation of a client crate.                                      *)
(***************************************************************************)
BuildTypes == {<<"u8">>, <<"u32">>, <<"String">>, <<"Guard">>}

Instances == [h : {"Assert1"}, L : BuildTypes, R : {<<"unit">>}]
             \cup [h : {"Assert2"}, L : BuildTypes, R : BuildTypes]

References == {rf \in [c : Consts1 \cup Consts2, L : BuildTypes, R : BuildTypes] :
                  rf.c \in Consts1 => rf.R = rf.L}

Items == Cardinality(declared) + Cardinality(named) + Cardinality(instantiated)

NoQuery == [api |-> "none"]

\* `fn test<T, O>(..) { let _ = Assert2::<T, O>::C; }`: a generic function
\* whose body references constant c.  Nothing is evaluated.
DeclareGeneric(c) ==
    /\ phase = "compiling"
    /\ Items < MaxItems
    /\ c \notin declared
    /\ declared' = declared \cup {c}
    /\ UNCHANGED <<ptr, guardEffect, phase, named, instantiated, errors,
                   deferred, rtError, out>>

\* Variant in which naming a concrete instance evaluates every constant
\* of the instance.
NameInstance_eval(i) ==
    {rf \in References : /\ rf.L = i.L
                         /\ rf.c \in (IF i.h = "Assert1" THEN Consts1 ELSE Consts2)
                         /\ i.h = "Assert2" => rf.R = i.R
                         /\ ConstEval(rf.c, rf.L, rf.R) = "panic"}

\* Naming a concrete instance evaluates none of its constants.
NameInstance_errors(i) == {}

\* `let _: Assert<T>;` for a concrete T: the instance is named, no
\* associated constant is used.
NameInstance(i) ==
    /\ phase = "compiling"
    /\ Items < MaxItems
    /\ i \notin named
    /\ named' = named \cup {i}
    /\ errors' = errors \cup NameInstance_errors(i)
    /\ UNCHANGED <<ptr, guardEffect, phase, declared, instantiated,
                   deferred, rtError, out>>

\* `test(0u8, false)`: the generic function that references rf.c is
\* instantiated with concrete types, which makes the compiler evaluate the
\* constant for them.
Instantiate(rf) ==
    /\ phase = "compiling"
    /\ Items < MaxItems
    /\ rf.c \in declared
    /\ rf \notin instantiated
    /\ instantiated' = instantiated \cup {rf}
    /\ IF EvalSite(rf.c) = "compile"
       THEN /\ errors' = IF ConstEval(rf.c, rf.L, rf.R) = "panic"
                         THEN errors \cup {rf} ELSE errors
            /\ UNCHANGED deferred
       ELSE /\ deferred' = deferred \cup {rf}
            /\ UNCHANGED errors
    /\ UNCHANGED <<ptr, guardEffect, phase, declared, named, rtError, out>>

\* The compiler is done with the crate.
Finish ==
    /\ phase = "compiling"
    /\ phase' = IF errors = {} THEN "built" ELSE "failed"
    /\ UNCHANGED <<ptr, guardEffect, declared, named, instantiated, errors,
                   deferred, rtError, out>>

\* The built program runs: `let _ = C;` is a no-op, an assertion left to
\* run time panics when its condition is false.
Run ==
    /\ phase = "built"
    /\ phase' = "ran"
    /\ rtError' = \E rf \in deferred : ~Condition(rf.c, rf.L, rf.R)
    /\ UNCHANGED <<ptr, guardEffect, declared, named, instantiated, errors,
                   deferred, out>>

Init ==
    /\ ptr \in PtrWidths
    /\ guardEffect \in BOOLEAN
    /\ phase = "compiling"
    /\ declared = {}
    /\ named = {}
    /\ instantiated = {}
    /\ errors = {}
    /\ deferred = {}
    /\ rtError = FALSE
    /\ out = NoQuery

NextBuild ==
    \/ \E c \in Consts1 \cup Consts2 : DeclareGeneric(c)
    \/ \E i \in Instances : NameInstance(i)
    \/ \E rf \in References : Instantiate(rf)
    \/ Finish
    \/ Run

SpecBuild == Init /\ [][NextBuild]_vars


(***************************************************************************)
(* src/src/mem.rs: the value-based functions.  A call is type-checked      *)
(* against the signature `fn f<T>(_: &T)`: the argument must be a          *)
(* reference, T is what it refers to, and T must satisfy the bound.  The   *)
(* parameter is `_`: the value v behind the reference is never read.       *)
(***************************************************************************)
Ok(v) == [ok |-> TRUE, v |-> v]

CompileError(why) == [ok |-> FALSE, v |-> why]

TypeError == <<"!">>

\* `T: Sized` is written out on size_of; align_of and needs_drop declare a
\* plain `<T>`, which the language reads as `T: Sized` too.
size_of_bound == "Sized"

align_of_bound == "Sized"

\* Variant of needs_drop declared with `T: ?Sized`.
needs_drop_bound_relaxed == "?Sized"

needs_drop_bound == "Sized"

CheckCall(bound, argTy) ==
    IF argTy = TypeError THEN "ill-typed argument"
    ELSE IF ~IsRef(argTy) THEN "mismatched types"
    ELSE IF bound = "Sized" /\ ~IsSized(Deref(argTy)) THEN "size not known"
    ELSE "ok"

\* Variant of size_of that answers for the reference, not for T.
mem_fn_size_of_ref(argTy, v) ==
    IF CheckCall(size_of_bound, argTy) # "ok"
    THEN CompileError(CheckCall(size_of_bound, argTy))
    ELSE Ok(mem_size_of(argTy))

mem_fn_size_of(argTy, v) ==
    IF CheckCall(size_of_bound, argTy) # "ok"
    THEN CompileError(CheckCall(size_of_bound, argTy))
    ELSE Ok(mem_size_of(Deref(argTy)))

mem_fn_align_of(argTy, v) ==
    IF CheckCall(align_of_bound, argTy) # "ok"
    THEN CompileError(CheckCall(align_of_bound, argTy))
    ELSE Ok(mem_align_of(Deref(argTy)))

mem_fn_needs_drop(argTy, v) ==
    IF CheckCall(needs_drop_bound, argTy) # "ok"
    THEN CompileError(CheckCall(needs_drop_bound, argTy))
    ELSE Ok(mem_needs_drop(Deref(argTy)))

ValueOps == {"size", "align", "needs_drop"}

mem_fn(op, argTy, v) ==
    CASE op = "size"       -> mem_fn_size_of(argTy, v)
      [] op = "align"      -> mem_fn_align_of(argTy, v)
      [] op = "needs_drop" -> mem_fn_needs_drop(argTy, v)

\* core::mem::size_of::<$type>() and the other two, as the type rule of
\* the macros calls them.
core_mem(op, t) ==
    IF t = TypeError THEN CompileError("cannot find type")
    ELSE CASE op = "size"       -> Ok(mem_size_of(t))
           [] op = "align"      -> Ok(mem_align_of(t))
           [] op = "needs_drop" -> Ok(mem_needs_drop(t))


(***************************************************************************)
(* The shorthand macros.  An invocation is a sequence of token trees:      *)
(* identifiers, the punctuation "*", "&", ",", ".", and the groups "[0]"   *)
(* and "()".                                                               *)
(***************************************************************************)
\* The names in scope in the documentation tests: the types they mention
\* and the variables they bind, each with its static type.
TypeNames == {"u8", "u32", "usize", "String"}

Locals == {"array", "array_ref", "val", "val2", "string", "string_ref", "text"}

LocalType(x) ==
    CASE x = "array"      -> <<"arr4">>
      [] x = "array_ref"  -> <<"&", "arr4">>
      [] x = "val"        -> <<"&", "u8">>
      [] x = "val2"       -> <<"&", "&", "u8">>
      [] x = "string"     -> <<"String">>
      [] x = "string_ref" -> <<"&", "String">>
      [] x = "text"       -> <<"&", "str">>

Punct == {"*", "&", ",", ".", "[0]", "()"}

IsIdent(tok) == tok \notin Punct

SkipToks(toks, n) == SubSeq(toks, n + 1, Len(toks))

\* The `ty` fragment parser: the number of token trees it consumes, 0 when
\* the first token cannot begin a type, -1 when it starts on the input and
\* then fails, which aborts the whole invocation.
RECURSIVE TyLen(_)
TyLen(toks) ==
    IF toks = <<>> THEN 0
    ELSE CASE Head(toks) = "&"   -> LET n == TyLen(Tail(toks))
                                    IN  IF n <= 0 THEN -1 ELSE 1 + n
           [] Head(toks) = "*"   -> -1
           [] Head(toks) = "[0]" -> -1
           [] Head(toks) = "()"  -> 1
           [] Head(toks) \in {",", "."} -> 0
           [] OTHER -> 1

\* The postfix operations that follow a primary expression.
RECURSIVE PostfixLen(_)
PostfixLen(toks) ==
    IF toks = <<>> THEN 0
    ELSE CASE Head(toks) = "[0]" ->
                LET n == PostfixLen(Tail(toks))
                IN  IF n < 0 THEN -1 ELSE 1 + n
           [] Head(toks) = "." ->
                IF Len(toks) >= 3 /\ IsIdent(toks[2]) /\ toks[3] = "()"
                THEN LET n == PostfixLen(SkipToks(toks, 3))
                     IN  IF n < 0 THEN -1 ELSE 3 + n
                ELSE -1
           [] OTHER -> 0

\* The `expr` fragment parser, with the same convention as TyLen.
RECURSIVE ExprLen(_)
ExprLen(toks) ==
    IF toks = <<>> THEN 0
    ELSE CASE Head(toks) \in {"*", "&"} ->
                LET n == ExprLen(Tail(toks))
                IN  IF n <= 0 THEN -1 ELSE 1 + n
           [] Head(toks) \in {",", "."} -> 0
           [] OTHER ->
                LET n == PostfixLen(Tail(toks))
                IN  IF n < 0 THEN -1 ELSE 1 + n

\* The static type of an expression; TypeError when it does not type-check.
RECURSIVE Pointee(_)
Pointee(t) == IF IsRef(t) THEN Pointee(Deref(t)) ELSE t

IndexType(t) ==
    IF t # TypeError /\ Head(Pointee(t)) \in {"arr4", "slice"}
    THEN <<"u8">> ELSE TypeError

MethodType(t, m) ==
    IF t = TypeError THEN TypeError
    ELSE CASE m = "len" /\ Head(Pointee(t)) \in {"arr4", "slice", "String", "str"}
                -> <<"usize">>
           [] m = "as_bytes" /\ Head(Pointee(t)) \in {"String", "str"}
                -> <<"&", "slice">>
           [] OTHER -> TypeError

RECURSIVE PostfixType(_, _)
PostfixType(t, toks) ==
    IF toks = <<>> THEN t
    ELSE IF Head(toks) = "[0]" THEN PostfixType(IndexType(t), Tail(toks))
    ELSE PostfixType(MethodType(t, toks[2]), SkipToks(toks, 3))

PrimaryType(tok) ==
    CASE tok = "()"      -> <<"unit">>
      [] tok = "[0]"     -> TypeError
      [] tok \in Locals  -> LocalType(tok)
      [] OTHER           -> TypeError

DerefType(t) ==
    IF t = TypeError THEN TypeError
    ELSE IF IsRef(t) THEN Deref(t)
    ELSE IF t = <<"String">> THEN <<"str">>
    ELSE TypeError

RECURSIVE TypeOfExpr(_)
TypeOfExpr(toks) ==
    CASE Head(toks) = "&" ->
            LET t == TypeOfExpr(Tail(toks))
            IN  IF t = TypeError THEN TypeError ELSE Ref(t)
      [] Head(toks) = "*" -> DerefType(TypeOfExpr(Tail(toks)))
      [] OTHER -> PostfixType(PrimaryType(Head(toks)), Tail(toks))

\* The type a `ty` fragment names; TypeError when a name is not a type.
RECURSIVE ResolveType(_)
ResolveType(toks) ==
    CASE Head(toks) = "&" ->
            LET t == ResolveType(Tail(toks))
            IN  IF t = TypeError THEN TypeError ELSE Ref(t)
      [] Head(toks) = "()" -> <<"unit">>
      [] Head(toks) \in TypeNames -> <<Head(toks)>>
      [] OTHER -> TypeError


\* macro_rules! size_of / align_of / needs_drop: the three have the same
\* rules, tried in the order written.  A rule whose fragment parser fails
\* after it started aborts the invocation; a rule whose literal token does
\* not match, or that leaves input over, gives way to the next.
Arm(a, arg) == [arm |-> a, arg |-> arg]

ArmDeref(toks) ==
    IF toks # <<>> /\ Head(toks) = "*"
    THEN LET n == ExprLen(Tail(toks))
         IN  IF n < 0 THEN Arm("error", toks)
             ELSE IF n > 0 /\ n = Len(toks) - 1 THEN Arm("deref", Tail(toks))
             ELSE Arm("next", toks)
    ELSE Arm("next", toks)

ArmType(toks) ==
    LET n == TyLen(toks)
    IN  IF n < 0 THEN Arm("error", toks)
        ELSE IF n > 0 /\ n = Len(toks) THEN Arm("type", toks)
        ELSE Arm("next", toks)

ArmValue(toks) ==
    LET n == ExprLen(toks)
    IN  IF n < 0 THEN Arm("error", toks)
        ELSE IF n > 0 /\ n = Len(toks) THEN Arm("value", toks)
        ELSE IF n > 0 /\ n = Len(toks) - 1 /\ toks[Len(toks)] = ","
        THEN Arm("value", SubSeq(toks, 1, n))
        ELSE Arm("next", toks)

\* Variant with the type rule written before the `*` rule.
macro_rules_type_first(toks) ==
    IF ArmType(toks).arm # "next" THEN ArmType(toks)
    ELSE IF ArmDeref(toks).arm # "next" THEN ArmDeref(toks)
    ELSE IF ArmValue(toks).arm # "next" THEN ArmValue(toks)
    ELSE Arm("error", toks)

macro_rules(toks) ==
    IF ArmDeref(toks).arm # "next" THEN ArmDeref(toks)
    ELSE IF ArmType(toks).arm # "next" THEN ArmType(toks)
    ELSE IF ArmValue(toks).arm # "next" THEN ArmValue(toks)
    ELSE Arm("error", toks)

\* Variant whose value rule passes $val itself, not a reference to it.
Expansion_no_ref(op, m, v) ==
    CASE m.arm = "deref" -> mem_fn(op, TypeOfExpr(m.arg), v)
      [] m.arm = "type"  -> core_mem(op, ResolveType(m.arg))
      [] m.arm = "value" -> mem_fn(op, TypeOfExpr(m.arg), v)
      [] OTHER -> CompileError("no rule matched")

\* The expansion of the rule that matched, type-checked and evaluated.
Expansion(op, m, v) ==
    CASE m.arm = "deref" -> mem_fn(op, TypeOfExpr(m.arg), v)
      [] m.arm = "type"  -> core_mem(op, ResolveType(m.arg))
      [] m.arm = "value" ->
            LET t == TypeOfExpr(m.arg)
            IN  IF t = TypeError THEN CompileError("ill-typed argument")
                ELSE mem_fn(op, Ref(t), v)
      [] OTHER -> CompileError("no rule matched")

(***************************************************************************)
(* The query expression a client evaluates: one per behaviour, its inputs  *)
(* drawn from the sets below.                                              *)
(***************************************************************************)
MaxPrefix == 2     \* prefix operators in one expression

Payloads == {0, 1}

QueryTypes == {<<b>> : b \in SizedBase \cup UnsizedBase}
              \cup {<<"&", b>> : b \in {"u8", "String", "str"}}

RECURSIVE PrefixSeqs(_)
PrefixSeqs(n) ==
    IF n = 0 THEN {<<>>}
    ELSE PrefixSeqs(n - 1)
         \cup {<<x>> \o q : x \in {"*", "&"}, q \in PrefixSeqs(n - 1)}

PostfixOps == {<<"[0]">>, <<".", "len", "()">>, <<".", "as_bytes", "()">>}

RECURSIVE PostfixSeqs(_)
PostfixSeqs(n) ==
    IF n = 0 THEN {<<>>}
    ELSE PostfixSeqs(n - 1)
         \cup {q \o x : x \in PostfixOps, q \in PostfixSeqs(n - 1)}

Exprs == {pre \o <<p>> \o post : pre \in PrefixSeqs(MaxPrefix),
                                 p \in Locals \cup TypeNames \cup {"()"},
                                 post \in PostfixSeqs(MaxPostfix)}

MacroInputs == Exprs \cup {e \o <<",">> : e \in Exprs}

\* Type::<T>::size() and the other three; Type<T> takes a sized T.
TypeQuery ==
    /\ out = NoQuery
    /\ \E op \in QueryOps, t \in QueryTypes :
          out' = [api |-> "Type", op |-> op, ty |-> t,
                  res |-> IF IsSized(t) THEN Ok(TypeQueryResult(op, t))
                          ELSE CompileError("size not known")]
    /\ UNCHANGED <<ptr, guardEffect, phase, declared, named, instantiated,
                   errors, deferred, rtError>>

\* mem::size_of(r) and the other two, on a reference r to a value v of
\* static type t.
ValueQuery ==
    /\ out = NoQuery
    /\ \E op \in ValueOps, t \in QueryTypes, v \in Payloads :
          out' = [api |-> "mem", op |-> op, ty |-> t, val |-> v,
                  res |-> mem_fn(op, Ref(t), v)]
    /\ UNCHANGED <<ptr, guardEffect, phase, declared, named, instantiated,
                   errors, deferred, rtError>>

\* size_of!(toks), align_of!(toks), needs_drop!(toks); v is the value the
\* expression has at run time.
MacroCall ==
    /\ out = NoQuery
    /\ \E op \in ValueOps, toks \in MacroInputs, v \in Payloads :
          out' = LET m == macro_rules(toks)
                 IN  [api |-> "macro", op |-> op, toks |-> toks, val |-> v,
                      arm |-> m.arm, arg |-> m.arg,
                      res |-> Expansion(op, m, v)]
    /\ UNCHANGED <<ptr, guardEffect, phase, declared, named, instantiated,
                   errors, deferred, rtError>>

NextQuery ==
    \/ TypeQuery
    \/ ValueQuery
    \/ MacroCall

SpecQuery == Init /\ [][NextQuery]_vars

\* The two together.
Next == NextQuery \/ NextBuild

Spec == Init /\ [][Next]_vars


(***************************************************************************)
(* Properties.                                                             *)
(***************************************************************************)
IsQuery(api, op) == out.api = api /\ out.op = op

\* The expression compiled and has value v.
Yields(res, v) == res.ok /\ res.v = v

\* The expression was rejected by the compiler for the reason given.
Rejected(res, why) == ~res.ok /\ res.v = why

\* C1: for every type T, Type::<T>::is_zst() is true if and only if
\* Type::<T>::size() is 0.
C1_IsZstIffSizeZero ==
    (IsQuery("Type", "is_zst") /\ out.res.ok)
        => (out.res.v <=> (Type_size(out.ty) = 0))

C1_Witness ==
    /\ IsQuery("Type", "is_zst")
    /\ out.ty = <<"unit">>
    /\ Yields(out.res, TRUE)

\* What each comparison of a pair of types is meant to be, stated on the
\* layout of the two types.
PairProposition(c, l, r) ==
    CASE c = "IS_SAME_SIZE"                   -> mem_size_of(l) = mem_size_of(r)
      [] c = "IS_SAME_ALIGN"                  -> mem_align_of(l) = mem_align_of(r)
      [] c = "IS_LEFT_SIZE_GREATER_OR_EQUAL"  -> mem_size_of(l) >= mem_size_of(r)
      [] c = "IS_LEFT_SIZE_LESS"              -> mem_size_of(l) < mem_size_of(r)
      [] c = "IS_LEFT_ALIGN_GREATER_OR_EQUAL" -> mem_align_of(l) >= mem_align_of(r)
      [] c = "IS_LEFT_ALIGN_LESS"             -> mem_align_of(l) < mem_align_of(r)

\* C2: a referenced constant of Assert2<L, R> builds if and only if its
\* left-versus-right comparison of the sizes or alignments holds, and a
\* crate that was built or run has no referenced comparison that is false;
\* in particular for a 1-byte L and a 4-byte R, IS_LEFT_SIZE_LESS builds
\* and IS_LEFT_SIZE_GREATER_OR_EQUAL does not.
C2_PairConstantBuildsIffComparison ==
    /\ \A rf \in instantiated :
          rf.c \in Consts2 =>
             ((rf \notin errors) <=> PairProposition(rf.c, rf.L, rf.R))
    /\ [c |-> "IS_LEFT_SIZE_LESS", L |-> <<"u8">>, R |-> <<"u32">>] \notin errors
    /\ LET ge == [c |-> "IS_LEFT_SIZE_GREATER_OR_EQUAL",
                  L |-> <<"u8">>, R |-> <<"u32">>]
       IN  ge \in instantiated => ge \in errors /\ phase \in {"compiling", "failed"}
    /\ phase \in {"built", "ran"} =>
          \A rf \in instantiated :
             rf.c \in Consts2 => PairProposition(rf.c, rf.L, rf.R)

C2_Witness ==
    /\ [c |-> "IS_LEFT_SIZE_LESS", L |-> <<"u8">>, R |-> <<"u32">>]
          \in instantiated \ errors
    /\ [c |-> "IS_LEFT_SIZE_LESS", L |-> <<"u32">>, R |-> <<"u8">>] \in errors
    /\ phase = "failed"

\* What each single-type constant asserts, in terms of the type queries.
TypeProposition(c, t) ==
    CASE c = "NO_NEED_DROP" -> Type_needs_drop(t) = FALSE
      [] c = "IS_NOT_ZST"   -> Type_is_zst(t) = FALSE
      [] c = "IS_ZST"       -> Type_is_zst(t) = TRUE

\* C3: a referenced constant of Assert<T> fails the build if its
\* proposition is false and builds if it is true (NO_NEED_DROP iff
\* needs_drop() is false, IS_NOT_ZST iff is_zst() is false, IS_ZST iff
\* is_zst() is true); the failure happens while compiling: nothing is left
\* to run time, and the built program never panics.
C3_TypeConstantFailsBuildIffFalse ==
    /\ \A rf \in instantiated :
          rf.c \in Consts1 =>
             ((rf \in errors) <=> ~TypeProposition(rf.c, rf.L))
    /\ deferred = {}
    /\ rtError = FALSE
    /\ phase \in {"built", "ran"} =>
          \A rf \in instantiated : rf.c \in Consts1 => TypeProposition(rf.c, rf.L)

C3_Witness ==
    /\ [c |-> "IS_ZST", L |-> <<"u8">>, R |-> <<"u8">>] \in errors
    /\ [c |-> "IS_ZST", L |-> <<"Guard">>, R |-> <<"Guard">>]
          \in instantiated \ errors
    /\ phase = "failed"

Proposition(rf) ==
    IF rf.c \in Consts1 THEN TypeProposition(rf.c, rf.L)
    ELSE PairProposition(rf.c, rf.L, rf.R)

\* The constants of a named instance whose proposition is false.
FalseConstantsOf(i) ==
    {rf \in References :
        /\ rf.c \in (IF i.h = "Assert1" THEN Consts1 ELSE Consts2)
        /\ rf.L = i.L
        /\ i.h = "Assert2" => rf.R = i.R
        /\ ~Proposition(rf)}

\* C4: a constant is evaluated only when generic code that references it is
\* instantiated with concrete types.  Declaring generic code, or naming a
\* concrete instance without using a constant, never fails the build; the
\* instantiation that references a constant with a false proposition fails
\* it at once.  At every moment the errors are exactly the referenced
\* constants with a false proposition, and the finished build has failed if
\* and only if there is one.
C4_EvaluatedExactlyWhenReferenced ==
    /\ errors = {rf \in instantiated : ~Proposition(rf)}
    /\ phase = "failed" => \E rf \in instantiated : ~Proposition(rf)
    /\ phase \in {"built", "ran"} => \A rf \in instantiated : Proposition(rf)

C4_Witness ==
    /\ [h |-> "Assert1", L |-> <<"String">>, R |-> <<"unit">>] \in named
    /\ FalseConstantsOf([h |-> "Assert1", L |-> <<"String">>, R |-> <<"unit">>]) # {}
    /\ "NO_NEED_DROP" \in declared
    /\ instantiated = {[c |-> "NO_NEED_DROP", L |-> <<"u8">>, R |-> <<"u8">>]}
    /\ phase = "built"

Builds(c, l, r) == ConstEval(c, l, r) = "unit"

\* C5: for a pair (L, R) exactly one of these holds: IS_SAME_SIZE,
\* IS_LEFT_SIZE_LESS, or L strictly greater in size
\* (IS_LEFT_SIZE_GREATER_OR_EQUAL holds while IS_SAME_SIZE does not).
C5_SizeTrichotomy ==
    \A rf \in instantiated :
        rf.c \in Consts2 =>
           Cardinality({k \in 1..3 :
               CASE k = 1 -> Builds("IS_SAME_SIZE", rf.L, rf.R)
                 [] k = 2 -> Builds("IS_LEFT_SIZE_LESS", rf.L, rf.R)
                 [] k = 3 -> /\ Builds("IS_LEFT_SIZE_GREATER_OR_EQUAL", rf.L, rf.R)
                             /\ ~Builds("IS_SAME_SIZE", rf.L, rf.R)}) = 1

C5_Witness ==
    /\ [c |-> "IS_SAME_SIZE", L |-> <<"u32">>, R |-> <<"u8">>] \in errors
    /\ [c |-> "IS_SAME_SIZE", L |-> <<"u8">>, R |-> <<"u8">>]
          \in instantiated \ errors

\* C6: for every sized type T and every value v of static type T, the
\* value-based functions agree with the type queries on T: size_of(&v) is
\* Type::<T>::size(), align_of(&v) is Type::<T>::align(), needs_drop(&v) is
\* Type::<T>::needs_drop(), whatever the value v.
C6_ValueFunctionsAgreeWithTypeQueries ==
    (out.api = "mem" /\ IsSized(out.ty))
        => Yields(out.res, TypeQueryResult(out.op, out.ty))

C6_Witness ==
    /\ IsQuery("mem", "size")
    /\ out.ty = <<"String">>
    /\ out.val = 1
    /\ Yields(out.res, 3 * ptr)

\* C7: needs_drop never under-reports.  NO_NEED_DROP fails for every type
\* whose release has a side effect, so whenever it builds for T, dropping a
\* T has no side effect; a type without side effect may still be refused.
C7_NeedsDropNeverUnderReports ==
    \A rf \in instantiated :
        /\ HasCleanup(rf.L) => Type_needs_drop(rf.L)
        /\ (rf.c = "NO_NEED_DROP" /\ HasCleanup(rf.L)) => rf \in errors
        /\ (rf.c = "NO_NEED_DROP" /\ phase \in {"built", "ran"})
              => ~HasCleanup(rf.L)

C7_Witness ==
    /\ [c |-> "NO_NEED_DROP", L |-> <<"String">>, R |-> <<"String">>] \in errors
    /\ [c |-> "NO_NEED_DROP", L |-> <<"u32">>, R |-> <<"u32">>]
          \in instantiated \ errors


IsExpr(toks) == toks # <<>> /\ ExprLen(toks) = Len(toks)

\* A well-typed expression that produces a value of a sized type.
ValueExpr(toks) ==
    /\ IsExpr(toks)
    /\ TypeOfExpr(toks) # TypeError
    /\ IsSized(TypeOfExpr(toks))

\* A well-typed expression whose static type is a reference.
RefExpr(toks) ==
    /\ IsExpr(toks)
    /\ TypeOfExpr(toks) # TypeError
    /\ IsRef(TypeOfExpr(toks))

IsTypeName(toks) == Len(toks) = 1 /\ toks[1] \in TypeNames

Front(toks) == SubSeq(toks, 1, Len(toks) - 1)

\* C8, as stated: each macro takes a bare type name to the type query for
\* that type, and an arbitrary value-producing expression to the
\* value-based operation, which answers for the expression's static type.
C8_Original ==
    out.api = "macro" =>
       /\ IsTypeName(out.toks) =>
             /\ out.arm = "type"
             /\ Yields(out.res, TypeQueryResult(out.op, <<out.toks[1]>>))
       /\ ValueExpr(out.toks) =>
             Yields(out.res, TypeQueryResult(out.op, TypeOfExpr(out.toks)))

\* C8, amended: each macro takes a bare type name to the type query for
\* that type, and a value-producing expression to the value-based
\* operation, which answers for the expression's static type, provided the
\* expression does not begin with `*` and the type rule neither fails on
\* its tokens nor matches all of them.
C8_MacroDispatch ==
    out.api = "macro" =>
       /\ IsTypeName(out.toks) =>
             /\ out.arm = "type"
             /\ Yields(out.res, TypeQueryResult(out.op, <<out.toks[1]>>))
       /\ ( /\ ValueExpr(out.toks)
            /\ Head(out.toks) # "*"
            /\ TyLen(out.toks) >= 0
            /\ TyLen(out.toks) < Len(out.toks) ) =>
             /\ out.arm = "value"
             /\ Yields(out.res, TypeQueryResult(out.op, TypeOfExpr(out.toks)))

C8_Witness ==
    /\ IsQuery("macro", "size")
    /\ out.toks = <<"array", "[0]">>
    /\ out.arm = "value"
    /\ Yields(out.res, 1)

\* C9, as stated: for an expression e of reference type &T, m!(*e) goes to
\* the `*` rule, adds no reference and answers for T; m!(e,) takes a
\* reference to e and answers for the reference itself, whose size is the
\* size of a pointer.
C9_Original ==
    out.api = "macro" =>
       /\ (Head(out.toks) = "*" /\ RefExpr(Tail(out.toks))) =>
             /\ out.arm = "deref"
             /\ out.res.ok
             /\ out.res.v = TypeQueryResult(out.op,
                                            Deref(TypeOfExpr(Tail(out.toks))))
       /\ (out.toks[Len(out.toks)] = "," /\ RefExpr(Front(out.toks))) =>
             /\ out.arm = "value"
             /\ out.res.ok
             /\ out.res.v = TypeQueryResult(out.op, TypeOfExpr(Front(out.toks)))
             /\ out.op = "size" => out.res.v = mem_size_of(<<"usize">>)

\* C9, amended: the same for an expression e of type &T with T sized, and,
\* for m!(e,), for an e on whose tokens the type rule does not fail (it
\* fails when e begins with `*`).
C9_DerefAndCommaForms ==
    out.api = "macro" =>
       /\ ( /\ Head(out.toks) = "*"
            /\ RefExpr(Tail(out.toks))
            /\ IsSized(Deref(TypeOfExpr(Tail(out.toks)))) ) =>
             /\ out.arm = "deref"
             /\ out.res.ok
             /\ out.res.v = TypeQueryResult(out.op,
                                            Deref(TypeOfExpr(Tail(out.toks))))
       /\ ( /\ out.toks[Len(out.toks)] = ","
            /\ RefExpr(Front(out.toks))
            /\ IsSized(Deref(TypeOfExpr(Front(out.toks))))
            /\ TyLen(out.toks) >= 0 ) =>
             /\ out.arm = "value"
             /\ out.res.ok
             /\ out.res.v = TypeQueryResult(out.op, TypeOfExpr(Front(out.toks)))
             /\ out.op = "size" => out.res.v = mem_size_of(<<"usize">>)

C9_Witness ==
    /\ IsQuery("macro", "needs_drop")
    /\ out.toks = <<"*", "string_ref">>
    /\ out.arm = "deref"
    /\ Yields(out.res, TRUE)

\* C10: a value-based function applied to a reference to a dynamically
\* sized type is rejected by the compiler; applied to a reference to a
\* sized type it returns a value.
C10_UnsizedRejectedAtCompileTime ==
    out.api = "mem" =>
       /\ ~IsSized(out.ty) => Rejected(out.res, "size not known")
       /\ IsSized(out.ty) => out.res.ok

C10_Witness ==
    /\ IsQuery("mem", "needs_drop")
    /\ out.ty = <<"str">>
    /\ Rejected(out.res, "size not known")

=============================================================================
